---- MODULE Spec2Model ----
(***************************************************************************)
(* Model of the GoDesignPattern repository.                                *)
(*                                                                         *)
(* Interpreter pattern (BehavioralPattern/Interpreter/Interpreter.go):     *)
(* ParseTemplate scans a template string into a list of TextNode / VarNode *)
(* values; Template.Interpreter walks that list against a Context.         *)
(*                                                                         *)
(* A Go string is modelled as a sequence of one-character strings, a Go    *)
(* slice expression s[lo:hi] as Slice(s, lo, hi) with 0-based offsets.     *)
(***************************************************************************)
EXTENDS Integers, Sequences, FiniteSets, TLC

VARIABLES tmpl, ppc, index, tree, ctx, rpc, ri, s, res, prev

\* one record per further program of the repository, holding the fields of
\* its objects and the position of each of its callers
VARIABLES callers, singleton, chain, dbpool, room, iter, memo, switch, zhan, queue

\* the programs other than the sequential Interpreter run
patternVars == <<callers, singleton, chain, dbpool, room, iter, memo, switch, zhan, queue>>

vars == <<tmpl, ppc, index, tree, ctx, rpc, ri, s, res, prev, patternVars>>

parseVars == <<tmpl, ppc, index, tree>>

renderVars == <<ctx, rpc, ri, s, res, prev>>

-----------------------------------------------------------------------------
(* Bounds of the model.                                                    *)

\* longest enumerated template string
MaxLen == 6

\* longest enumerated key placed inside a generated marker
MaxKeyLen == 1

-----------------------------------------------------------------------------
(* Strings.                                                                *)

Chars == {"{", "}", " ", "a"}

Open == <<"{", "{">>

Close == <<"}", "}">>

\* unicode.IsSpace restricted to the characters TLA+ can write
WhiteSpace == {" ", "\t", "\n", "\f", "\r"}

\* Go slice expression str[lo:hi]
Slice(str, lo, hi) == SubSeq(str, lo + 1, hi)

\* a slice expression str[lo:hi] on a string of length n does not panic
SliceOK(lo, hi, n) == 0 <= lo /\ lo <= hi /\ hi <= n

\* the offsets at which substr occurs in str
Occurrences(str, substr) ==
    {i \in 0..(Len(str) - Len(substr)) :
        \A j \in 1..Len(substr) : str[i + j] = substr[j]}

IndexFirstChar(str, substr) ==
    LET occ == Occurrences(str, <<substr[1]>>)
    IN  IF occ = {} THEN -1 ELSE CHOOSE i \in occ : \A j \in occ : i <= j

\* strings.Index: offset of the first occurrence of substr in str, or -1
Index(str, substr) ==
    LET occ == Occurrences(str, substr)
    IN  IF occ = {} THEN -1 ELSE CHOOSE i \in occ : \A j \in occ : i <= j

TrimSpaceLeftOnly(str) ==
    LET keep == {i \in 1..Len(str) : str[i] \notin WhiteSpace}
    IN  IF keep = {} THEN <<>>
        ELSE SubSeq(str, CHOOSE i \in keep : \A j \in keep : i <= j, Len(str))

TrimSpaceIdentity(str) == str

\* strings.TrimSpace: str without its leading and trailing white space
TrimSpace(str) ==
    LET keep == {i \in 1..Len(str) : str[i] \notin WhiteSpace}
    IN  IF keep = {} THEN <<>>
        ELSE SubSeq(str, CHOOSE i \in keep : \A j \in keep : i <= j,
                         CHOOSE i \in keep : \A j \in keep : i >= j)

-----------------------------------------------------------------------------
(* Values of the Context and their formatting.                             *)

\* a value of type any holding a Go string
StringVal(str) == [type |-> "string", v |-> str]

\* a value of type any holding a Go int
IntVal(n) == [type |-> "int", v |-> n]

DigitChar == <<"0", "1", "2", "3", "4", "5", "6", "7", "8", "9">>

RECURSIVE Digits(_)
\* the base-10 digits of a natural number
Digits(n) ==
    IF n < 10 THEN <<DigitChar[n + 1]>>
    ELSE Digits(n \div 10) \o <<DigitChar[(n % 10) + 1]>>

SprintfQuoted(val) ==
    IF val.type = "string" THEN <<"\"">> \o val.v \o <<"\"">>
    ELSE IF val.v < 0 THEN <<"-">> \o Digits(-val.v)
    ELSE Digits(val.v)

\* fmt.Sprintf("%v", val)
Sprintf(val) ==
    IF val.type = "string" THEN val.v
    ELSE IF val.v < 0 THEN <<"-">> \o Digits(-val.v)
    ELSE Digits(val.v)

-----------------------------------------------------------------------------
(* Nodes.                                                                  *)

TextNode(content) == [type |-> "TextNode", Content |-> content]

VarNode(key) == [type |-> "VarNode", Key |-> key]

\* TextNode.Interpreter
TextNodeInterpreter(t, c) == t.Content

VarNodeInterpreterNoValue(t, c) ==
    IF t.Key \notin DOMAIN c THEN <<"<", "n", "i", "l", ">">>
    ELSE Sprintf(c[t.Key])

\* VarNode.Interpreter
VarNodeInterpreter(t, c) ==
    IF t.Key \notin DOMAIN c THEN <<>>
    ELSE Sprintf(c[t.Key])

\* dynamic dispatch of Node.Interpreter
NodeInterpreter(node, c) ==
    IF node.type = "TextNode" THEN TextNodeInterpreter(node, c)
    ELSE VarNodeInterpreter(node, c)

-----------------------------------------------------------------------------
(* Inputs.                                                                 *)

\* const tmpl of main
HelloTmpl == <<"H", "e", "l", "l", "o", ",", " ", "{", "{", " ", "N", "a", "m", "e", " ", "}", "}", "!", " ", "Y", "o", "u", " ", "a", "r", "e", " ", "{", "{", "A", "g", "e", "}", "}", " ", "y", "e", "a", "r", "s", " ", "o", "l", "d", ".">>

\* the Context of main
HelloCtx ==
    (<<"N", "a", "m", "e">> :> StringVal(<<"f", "e", "n", "g", "f", "e", "n", "g">>))
    @@ (<<"A", "g", "e">> :> IntVal(21))

AdjacentTmpl == <<"{", "{", "a", "}", "}", "{", "{", "b", "}", "}">>

AdjacentCtx == (<<"a">> :> StringVal(<<"1">>)) @@ (<<"b">> :> StringVal(<<"2">>))

DanglingTmpl == <<"a", "b", "c", "{", "{", "x">>

MissingTmpl == <<"{", "{", "x", "}", "}">>

TwoThenDanglingTmpl == <<"{", "{", "a", "}", "}", " ", "{", "{", " ", "}", "}", "a", "{", "{", "a", "}">>

\* every string over Chars of length at most n
Strings(n) == UNION {[1..k -> Chars] : k \in 0..n}

\* the keys placed inside generated markers
MarkerKeys ==
    Strings(MaxKeyLen)
    \cup {<<"a", " ", "a">>, <<"}", "a">>, <<"a", "}">>, <<"}", "}", "a">>}

Tight(k) == Open \o k \o Close

Padded(k) == Open \o <<" ">> \o k \o <<" ">> \o Close

Templates ==
    Strings(MaxLen)
    \cup {Tight(k) : k \in MarkerKeys} \cup {Padded(k) : k \in MarkerKeys}
    \cup {Open \o <<" ", "\t">> \o Close}
    \cup {HelloTmpl, AdjacentTmpl, DanglingTmpl, MissingTmpl, TwoThenDanglingTmpl}

Keys == {<<>>, <<"a">>}

Values == {StringVal(<<"x", "y">>), IntVal(-70)}

\* the Data maps a caller may pass
Contexts ==
    UNION {[D -> Values] : D \in SUBSET Keys}
    \cup {HelloCtx, AdjacentCtx, <<"}">> :> IntVal(5)}

-----------------------------------------------------------------------------
(* ParseTemplate: one action per way an iteration of the scan loop ends.   *)

InitParse ==
    /\ tmpl \in Templates
    /\ ppc = "loop"
    /\ index = 0
    /\ tree = <<>>

InitRender ==
    /\ ctx = <<>>
    /\ rpc = "idle"
    /\ ri = 0
    /\ s = <<>>
    /\ res = <<>>
    /\ prev = <<>>

\* the value of the record of a program that is not running
NotRunning == [pc |-> "off"]

Init ==
    /\ InitParse
    /\ InitRender
    /\ callers = NotRunning
    /\ singleton = NotRunning
    /\ chain = NotRunning
    /\ dbpool = NotRunning
    /\ room = NotRunning
    /\ iter = NotRunning
    /\ memo = NotRunning
    /\ switch = NotRunning
    /\ zhan = NotRunning
    /\ queue = NotRunning

\* startIndex := strings.Index(tmpl[index:], "{{")
startIndex == Index(Slice(tmpl, index, Len(tmpl)), Open)

endIndexFromCursor == Index(Slice(tmpl, index, Len(tmpl)), Close)

\* endIndex := strings.Index(tmpl[index+startIndex:], "}}")
endIndex == Index(Slice(tmpl, index + startIndex, Len(tmpl)), Close)

\* a slice expression out of range: the run-time panic ends the call
ParsePanic ==
    /\ ppc' = "panic"
    /\ UNCHANGED <<tmpl, index, tree>>

ParseTailSkipEmpty ==
    /\ ppc = "loop"
    /\ startIndex = -1
    /\ tree' = IF Slice(tmpl, index, Len(tmpl)) = <<>> THEN tree
               ELSE Append(tree, TextNode(Slice(tmpl, index, Len(tmpl))))
    /\ ppc' = "returned"
    /\ UNCHANGED <<tmpl, index>>
    /\ UNCHANGED renderVars
    /\ UNCHANGED patternVars

\* startIndex == -1: the rest of the string becomes a TextNode, break, return
ParseTail ==
    /\ ppc = "loop"
    /\ IF ~SliceOK(index, Len(tmpl), Len(tmpl)) THEN ParsePanic
       ELSE /\ startIndex = -1
            /\ tree' = Append(tree, TextNode(Slice(tmpl, index, Len(tmpl))))
            /\ ppc' = "returned"
            /\ UNCHANGED <<tmpl, index>>
    /\ UNCHANGED renderVars
    /\ UNCHANGED patternVars

ParseUnterminatedKeepRest ==
    /\ ppc = "loop"
    /\ startIndex # -1
    /\ endIndex = -1
    /\ tree' = Append(tree, TextNode(Slice(tmpl, index, Len(tmpl))))
    /\ ppc' = "returned"
    /\ UNCHANGED <<tmpl, index>>
    /\ UNCHANGED renderVars
    /\ UNCHANGED patternVars

\* "{{" found but no "}}": the text before "{{" becomes a TextNode, break
ParseUnterminated ==
    /\ ppc = "loop"
    /\ IF ~SliceOK(index, Len(tmpl), Len(tmpl)) THEN ParsePanic
       ELSE /\ startIndex # -1
            /\ IF ~SliceOK(index, index + startIndex, Len(tmpl)) THEN ParsePanic
               ELSE /\ endIndex = -1
                    /\ tree' = Append(tree,
                                 TextNode(Slice(tmpl, index, index + startIndex)))
                    /\ ppc' = "returned"
                    /\ UNCHANGED <<tmpl, index>>
    /\ UNCHANGED renderVars
    /\ UNCHANGED patternVars

ParseMarkerPastOpenOnly ==
    /\ ppc = "loop"
    /\ startIndex # -1
    /\ endIndex # -1
    /\ LET text == Slice(tmpl, index, index + startIndex)
           key  == TrimSpace(Slice(tmpl, index + startIndex + 2,
                                         index + startIndex + endIndex))
       IN  tree' = tree \o <<TextNode(text), VarNode(key)>>
    /\ index' = index + startIndex + 2
    /\ UNCHANGED <<tmpl, ppc>>
    /\ UNCHANGED renderVars
    /\ UNCHANGED patternVars

ParseMarkerSkipEmptyText ==
    /\ ppc = "loop"
    /\ startIndex # -1
    /\ endIndex # -1
    /\ LET text == Slice(tmpl, index, index + startIndex)
           key  == TrimSpace(Slice(tmpl, index + startIndex + 2,
                                         index + startIndex + endIndex))
       IN  tree' = (IF text = <<>> THEN tree ELSE Append(tree, TextNode(text)))
                   \o <<VarNode(key)>>
    /\ index' = index + startIndex + endIndex + 2
    /\ UNCHANGED <<tmpl, ppc>>
    /\ UNCHANGED renderVars
    /\ UNCHANGED patternVars

ParseMarkerShortAdvance ==
    /\ ppc = "loop"
    /\ startIndex # -1
    /\ endIndex # -1
    /\ LET text == Slice(tmpl, index, index + startIndex)
           key  == TrimSpace(Slice(tmpl, index + startIndex + 2,
                                         index + startIndex + endIndex))
       IN  tree' = tree \o <<TextNode(text), VarNode(key)>>
    /\ index' = index + startIndex + endIndex
    /\ UNCHANGED <<tmpl, ppc>>
    /\ UNCHANGED renderVars
    /\ UNCHANGED patternVars

\* "{{" and a later "}}" found: TextNode, VarNode, cursor past the "}}"
ParseMarker ==
    /\ ppc = "loop"
    /\ IF ~SliceOK(index, Len(tmpl), Len(tmpl)) THEN ParsePanic
       ELSE /\ startIndex # -1
            /\ IF ~SliceOK(index, index + startIndex, Len(tmpl)) THEN ParsePanic
               ELSE /\ endIndex # -1
                    /\ IF ~SliceOK(index + startIndex + 2,
                                   index + startIndex + endIndex, Len(tmpl))
                       THEN ParsePanic
                       ELSE LET text == Slice(tmpl, index, index + startIndex)
                                key  == TrimSpace(Slice(tmpl,
                                            index + startIndex + 2,
                                            index + startIndex + endIndex))
                            IN  /\ tree' = tree \o <<TextNode(text), VarNode(key)>>
                                /\ index' = index + startIndex + endIndex + 2
                                /\ UNCHANGED <<tmpl, ppc>>
    /\ UNCHANGED renderVars
    /\ UNCHANGED patternVars

-----------------------------------------------------------------------------
(* Template.Interpreter: call, one step per node of the range loop, return. *)

TemplateInterpreterCallKeepS(c) ==
    /\ ppc = "returned"
    /\ rpc = "idle"
    /\ rpc' = "range"
    /\ ctx' = c
    /\ ri' = 0
    /\ s' = s
    /\ prev' = IF c = ctx THEN res ELSE <<>>
    /\ UNCHANGED res
    /\ UNCHANGED parseVars
    /\ UNCHANGED patternVars

\* template.Interpreter(&Context{Data: c}): var s string
TemplateInterpreterCall(c) ==
    /\ ppc = "returned"
    /\ rpc = "idle"
    /\ rpc' = "range"
    /\ ctx' = c
    /\ ri' = 0
    /\ s' = <<>>
    /\ prev' = IF c = ctx THEN res ELSE <<>>
    /\ UNCHANGED res
    /\ UNCHANGED parseVars
    /\ UNCHANGED patternVars

TemplateInterpreterNodeAssign ==
    /\ rpc = "range"
    /\ ri < Len(tree)
    /\ s' = NodeInterpreter(tree[ri + 1], ctx)
    /\ ri' = ri + 1
    /\ UNCHANGED <<ctx, rpc, res, prev>>
    /\ UNCHANGED parseVars
    /\ UNCHANGED patternVars

TemplateInterpreterNodeCaching ==
    /\ rpc = "range"
    /\ ri < Len(tree)
    /\ s' = s \o NodeInterpreter(tree[ri + 1], ctx)
    /\ tree' = [tree EXCEPT ![ri + 1] = TextNode(NodeInterpreter(tree[ri + 1], ctx))]
    /\ ri' = ri + 1
    /\ UNCHANGED <<ctx, rpc, res, prev>>
    /\ UNCHANGED <<tmpl, ppc, index>>
    /\ UNCHANGED patternVars

\* s += node.Interpreter(ctx)
TemplateInterpreterNode ==
    /\ rpc = "range"
    /\ ri < Len(tree)
    /\ s' = s \o NodeInterpreter(tree[ri + 1], ctx)
    /\ ri' = ri + 1
    /\ UNCHANGED <<ctx, rpc, res, prev>>
    /\ UNCHANGED parseVars
    /\ UNCHANGED patternVars

\* return s
TemplateInterpreterReturn ==
    /\ rpc = "range"
    /\ ri = Len(tree)
    /\ res' = <<s>>
    /\ rpc' = "idle"
    /\ UNCHANGED <<ctx, ri, s, prev>>
    /\ UNCHANGED parseVars
    /\ UNCHANGED patternVars

Next ==
    \/ ParseTail
    \/ ParseUnterminated
    \/ ParseMarker
    \/ \E c \in Contexts : TemplateInterpreterCall(c)
    \/ TemplateInterpreterNode
    \/ TemplateInterpreterReturn

Spec == Init /\ [][Next]_vars

-----------------------------------------------------------------------------
(* Vocabulary of the properties.                                           *)

\* ParseTemplate has returned its Template
Parsed == ppc = "returned"

\* a call of Template.Interpreter has returned and no other is running
Returned == rpc = "idle" /\ res # <<>>

\* the string the last call returned
Result == res[1]

TypeOK ==
    /\ tmpl \in Templates
    /\ ppc \in {"loop", "returned", "panic"}
    /\ index \in 0..Len(tmpl)
    /\ rpc \in {"idle", "range"}
    /\ ri \in 0..Len(tree)
    /\ ctx \in Contexts
    /\ Len(res) <= 1
    /\ Len(prev) <= 1

\* an open token "{{" starts at offset p of str
OpenAt(str, p) == p + 2 <= Len(str) /\ str[p + 1] = "{" /\ str[p + 2] = "{"

\* a close token "}}" starts at offset q of str
CloseAt(str, q) == q + 2 <= Len(str) /\ str[q + 1] = "}" /\ str[q + 2] = "}"

Opens(str) == {p \in 0..Len(str) : OpenAt(str, p)}

Closes(str) == {q \in 0..Len(str) : CloseAt(str, q)}

Min(S) == CHOOSE x \in S : \A y \in S : x <= y

\* the open tokens of str with no close token after them
DanglingOpens(str) ==
    {p \in Opens(str) : ~ \E q \in Closes(str) : q > p}

\* every open token has a matching, later close token
WellFormed(str) == DanglingOpens(str) = {}

\* what a reference to key k is worth in context c
Lookup(k, c) == IF k \in DOMAIN c THEN Sprintf(c[k]) ELSE <<>>

\* k is str without the white space around it
IsTrimOf(k, str) ==
    \E a \in 0..Len(str) : \E b \in a..Len(str) :
        /\ k = SubSeq(str, a + 1, b)
        /\ \A i \in 1..a : str[i] \in WhiteSpace
        /\ \A i \in (b + 1)..Len(str) : str[i] \in WhiteSpace
        /\ k # <<>> => (k[1] \notin WhiteSpace /\ k[Len(k)] \notin WhiteSpace)

\* the offset in src just after node, when node stands for the source text at
\* offset pos: a Literal for its own text, a Reference for the span from a
\* "{{" at pos through the first "}}" after it; -1 when it does not
SpanEnd(node, src, pos) ==
    IF pos = -1 THEN -1
    ELSE IF node.type = "TextNode"
    THEN IF /\ pos + Len(node.Content) <= Len(src)
            /\ SubSeq(src, pos + 1, pos + Len(node.Content)) = node.Content
         THEN pos + Len(node.Content) ELSE -1
    ELSE IF OpenAt(src, pos) /\ \E q \in Closes(src) : q > pos
    THEN LET q == Min({x \in Closes(src) : x > pos})
         IN  IF IsTrimOf(node.Key, SubSeq(src, pos + 3, q)) THEN q + 2 ELSE -1
    ELSE -1

RECURSIVE Cover(_, _, _)
\* the offset up to which the nodes, laid end to end from offset pos, stand
\* for the source text; -1 when some node does not
Cover(nodes, src, pos) ==
    IF nodes = <<>> THEN pos
    ELSE Cover(Tail(nodes), src, SpanEnd(Head(nodes), src, pos))

RECURSIVE Expand(_, _)
\* the Literal texts and the looked-up References of nodes, concatenated
Expand(nodes, c) ==
    IF nodes = <<>> THEN <<>>
    ELSE (IF Head(nodes).type = "TextNode" THEN Head(nodes).Content
          ELSE Lookup(Head(nodes).Key, c)) \o Expand(Tail(nodes), c)

-----------------------------------------------------------------------------
(* Properties.                                                             *)

HelloOut == <<"H", "e", "l", "l", "o", ",", " ", "f", "e", "n", "g", "f", "e", "n", "g", "!", " ", "Y", "o", "u", " ", "a", "r", "e", " ", "2", "1", " ", "y", "e", "a", "r", "s", " ", "o", "l", "d", ".">>

\* C1: the template of main, rendered with the context of main
\* (Name = "fengfeng", Age = 21), returns exactly
\* "Hello, fengfeng! You are 21 years old.", the integer as base-10 text.
C1_HelloScenario ==
    (tmpl = HelloTmpl /\ ctx = HelloCtx /\ Returned) => Result = HelloOut

C1_Witness ==
    /\ tmpl = HelloTmpl /\ ctx = HelloCtx /\ Returned
    /\ Len(tree) = 5
    /\ Result = HelloOut

\* C2: a template without any "{{" (the empty string and strings holding
\* "}}" included) parses to the single Literal of the whole input, and every
\* render of it, whatever the context, returns the input unchanged.
C2_NoMarkerIdentity ==
    Opens(tmpl) = {} =>
        /\ Parsed => tree = <<TextNode(tmpl)>>
        /\ Returned => Result = tmpl

C2_Witness ==
    /\ Opens(tmpl) = {} /\ Closes(tmpl) # {} /\ Len(tmpl) >= 4
    /\ Returned /\ DOMAIN ctx # {}
    /\ Result = tmpl

\* C3: when the scan meets a "{{" with no "}}" after it, parsing returns
\* normally; the last node is the Literal of the text between the cursor and
\* that "{{", the nodes stand for the source up to that "{{" and for nothing
\* from it on, and "abc{{x" renders as "abc" in every context.
C3_UnterminatedDropped ==
    DanglingOpens(tmpl) # {} =>
        LET d == Min(DanglingOpens(tmpl))
        IN  /\ ppc # "panic"
            /\ Parsed =>
                  /\ index <= d
                  /\ tree # <<>>
                  /\ tree[Len(tree)] = TextNode(SubSeq(tmpl, index + 1, d))
                  /\ Cover(tree, tmpl, 0) = d
            /\ (Returned /\ tmpl = DanglingTmpl) => Result = <<"a", "b", "c">>
            /\ (Returned /\ Opens(tmpl) = DanglingOpens(tmpl)) =>
                  Result = SubSeq(tmpl, 1, d)

C3_Witness ==
    /\ tmpl = TwoThenDanglingTmpl
    /\ Returned
    /\ Len(tree) = 5
    /\ tree[5] = TextNode(<<"a">>)
    /\ index = 11

\* C4: a Reference whose key is absent from the context renders as the
\* empty string: "{{x}}" renders as "" in a context without x, and in every
\* render the result is the nodes' texts and looked-up values in sequence,
\* an absent key adding no character.
C4_MissingKeyEmpty ==
    Returned =>
        /\ Result = Expand(tree, ctx)
        /\ (tmpl = MissingTmpl /\ <<"x">> \notin DOMAIN ctx) => Result = <<>>

C4_Witness ==
    /\ Returned
    /\ tmpl = AdjacentTmpl
    /\ DOMAIN ctx = {<<"a">>}
    /\ ctx[<<"a">>] = StringVal(<<"x", "y">>)
    /\ Result = <<"x", "y">>

\* k has no white space at either end
NoSurroundingSpace(k) ==
    k # <<>> => (k[1] \notin WhiteSpace /\ k[Len(k)] \notin WhiteSpace)

\* the tree of a template that is one marker holding key k
OneMarkerTree(k) == <<TextNode(<<>>), VarNode(k), TextNode(<<>>)>>

\* C5 as stated: for every key k without surrounding white space, "{{ k }}"
\* and "{{k}}" both parse to a Reference with key k and render as the value
\* of k.
C5_AnyKeyTrimmed ==
    \A k \in MarkerKeys :
        (NoSurroundingSpace(k) /\ tmpl \in {Tight(k), Padded(k)}) =>
            /\ Parsed => (Len(tree) >= 2 /\ tree[2] = VarNode(k))
            /\ Returned => Result = Lookup(k, ctx)

\* no "}}" of k followed by "}}" starts before the end of k
NoEarlyClose(k) == Closes(k) = {} /\ (k = <<>> \/ k[Len(k)] # "}")

\* C5 (amended): for every key k without surrounding white space that
\* neither ends in "}" nor contains "}}", "{{ k }}" and "{{k}}" both parse to
\* the same nodes, one Reference with key k between two empty Literals, and
\* both render as the value of k.
C5_TrimmedKey ==
    \A k \in MarkerKeys :
        (NoSurroundingSpace(k) /\ NoEarlyClose(k)
            /\ tmpl \in {Tight(k), Padded(k)}) =>
            /\ Parsed => tree = OneMarkerTree(k)
            /\ Returned => Result = Lookup(k, ctx)

C5_Witness ==
    /\ tmpl = Padded(<<"a">>)
    /\ Returned
    /\ tree = OneMarkerTree(<<"a">>)
    /\ <<"a">> \in DOMAIN ctx
    /\ ctx[<<"a">>] = StringVal(<<"x", "y">>)
    /\ Result = <<"x", "y">>

\* C6: "{{a}}{{b}}" parses to two References with an empty Literal between
\* them (and one at either end), and renders as "12" with a = "1", b = "2".
C6_AdjacentMarkers ==
    tmpl = AdjacentTmpl =>
        /\ Parsed => tree = <<TextNode(<<>>), VarNode(<<"a">>), TextNode(<<>>),
                              VarNode(<<"b">>), TextNode(<<>>)>>
        /\ (Returned /\ ctx = AdjacentCtx) => Result = <<"1", "2">>

C6_Witness ==
    /\ tmpl = AdjacentTmpl /\ ctx = AdjacentCtx /\ Returned
    /\ tree[3] = TextNode(<<>>)
    /\ Result = <<"1", "2">>

\* str is one marker whose content is empty or only white space
IsBlankMarker(str) ==
    /\ Len(str) >= 4
    /\ OpenAt(str, 0)
    /\ CloseAt(str, Len(str) - 2)
    /\ \A i \in 3..(Len(str) - 2) : str[i] \in WhiteSpace

\* C7 as stated: "{{}}" and every marker holding only white space parse to a
\* Reference with the empty key, which renders as the empty string.
C7_BlankMarkerRendersEmpty ==
    IsBlankMarker(tmpl) =>
        /\ Parsed => tree = OneMarkerTree(<<>>)
        /\ Returned => Result = <<>>

\* C7 (amended): "{{}}" and every marker holding only white space parse to a
\* Reference with the empty key; it renders as the empty string when the
\* context has no entry under the empty key, and as the formatted value of
\* that entry when it has one.
C7_BlankMarkerEmptyKey ==
    IsBlankMarker(tmpl) =>
        /\ Parsed => tree = OneMarkerTree(<<>>)
        /\ (Returned /\ <<>> \notin DOMAIN ctx) => Result = <<>>
        /\ (Returned /\ <<>> \in DOMAIN ctx) => Result = Sprintf(ctx[<<>>])

C7_Witness ==
    /\ tmpl = Open \o <<" ", "\t">> \o Close
    /\ Returned
    /\ tree[2] = VarNode(<<>>)
    /\ DOMAIN ctx = {<<"a">>}
    /\ Result = <<>>

RECURSIVE LiteralTotal(_)
\* the total length of the Literal texts of nodes
LiteralTotal(nodes) ==
    IF nodes = <<>> THEN 0
    ELSE (IF Head(nodes).type = "TextNode" THEN Len(Head(nodes).Content) ELSE 0)
         + LiteralTotal(Tail(nodes))

RECURSIVE ReferenceTotal(_, _)
\* the total length of the formatted values of the References of nodes
ReferenceTotal(nodes, c) ==
    IF nodes = <<>> THEN 0
    ELSE (IF Head(nodes).type = "VarNode" THEN Len(Sprintf(c[Head(nodes).Key]))
          ELSE 0)
         + ReferenceTotal(Tail(nodes), c)

\* every key the nodes refer to has an entry in c
AllKeysPresent(nodes, c) ==
    \A i \in 1..Len(nodes) :
        nodes[i].type = "VarNode" => nodes[i].Key \in DOMAIN c

\* C8: for a well-formed template rendered in a context holding every key it
\* refers to, the length of the result is the total length of the Literal
\* texts plus the lengths of the formatted values of the References.
C8_RenderedLength ==
    (Returned /\ WellFormed(tmpl) /\ AllKeysPresent(tree, ctx)) =>
        Len(Result) = LiteralTotal(tree) + ReferenceTotal(tree, ctx)

C8_Witness ==
    /\ Returned /\ WellFormed(tmpl) /\ AllKeysPresent(tree, ctx)
    /\ tmpl = <<"a", "{", "{", " ", "}", "}">>
    /\ <<>> \in DOMAIN ctx /\ ctx[<<>>] = IntVal(-70)
    /\ Len(Result) = 4

\* C9: the nodes follow the source in order without gap or overlap: laid end
\* to end from offset 0, each Literal as its text and each Reference as the
\* span from its "{{" through the first "}}" after it, they spell a prefix of
\* the source, and the whole source when every "{{" has a later "}}".
C9_SourceOrder ==
    Parsed =>
        /\ Cover(tree, tmpl, 0) \in 0..Len(tmpl)
        /\ WellFormed(tmpl) => Cover(tree, tmpl, 0) = Len(tmpl)

C9_Witness ==
    /\ Parsed
    /\ tmpl = HelloTmpl
    /\ Len(tree) = 5
    /\ Cover(tree, tmpl, 0) = 45

\* C10: two successive calls of Template.Interpreter with the same context
\* return the same string.
C10_Idempotent ==
    (Returned /\ prev # <<>>) => res = prev

C10_Witness ==
    /\ Returned /\ prev # <<>>
    /\ Len(tree) >= 3
    /\ DOMAIN ctx # {}
    /\ Result # <<>>
    /\ res = prev

\* C11: a call of Template.Interpreter has no side effect: from the call to
\* the return no step changes the node sequence of the Template (length,
\* order, the Content or Key of any node) or the caller's context mapping.
C11_NoSideEffects ==
    [][(rpc = "range" \/ rpc' = "range") =>
          /\ tree' = tree
          /\ rpc = "range" => ctx' = ctx]_vars

C11_Witness ==
    /\ tmpl = HelloTmpl
    /\ ctx = HelloCtx
    /\ rpc = "range"
    /\ ri = Len(tree)
    /\ tree = <<TextNode(SubSeq(HelloTmpl, 1, 7)), VarNode(<<"N", "a", "m", "e">>),
                TextNode(SubSeq(HelloTmpl, 18, 27)), VarNode(<<"A", "g", "e">>),
                TextNode(SubSeq(HelloTmpl, 35, 45))>>

\* C13: ParseTemplate is total: at every iteration of the scan, for every
\* input string, each slice expression it evaluates has its offsets in
\* order and within the string, so the call never panics, and the cursor
\* never passes the end of the string.
C13_ParseTotal ==
    /\ ppc # "panic"
    /\ SliceOK(index, Len(tmpl), Len(tmpl))
    /\ (ppc = "loop" /\ startIndex # -1) =>
          /\ SliceOK(index, index + startIndex, Len(tmpl))
          /\ SliceOK(index + startIndex, Len(tmpl), Len(tmpl))
          /\ endIndex # -1 =>
                SliceOK(index + startIndex + 2, index + startIndex + endIndex,
                        Len(tmpl))

C13_Witness ==
    /\ tmpl = <<"}", "}", "{", "{", "{", "}">>
    /\ Parsed
    /\ tree = <<TextNode(<<"}", "}">>)>>

-----------------------------------------------------------------------------
(* Template.Interpreter called by several goroutines on one Template, each *)
(* with its own Context: callers.ctx[p], callers.i[p] and callers.s[p] are *)
(* the parameter and the locals of caller p, tree is shared.               *)

\* number of concurrent callers
NumCallers == 2

Callers == 1..NumCallers

\* the templates rendered concurrently
ConcTemplates ==
    {HelloTmpl, AdjacentTmpl, DanglingTmpl, MissingTmpl, TwoThenDanglingTmpl}
    \cup {Tight(k) : k \in MarkerKeys} \cup {Padded(k) : k \in MarkerKeys}
    \cup Strings(2)

\* the Data maps the concurrent callers pass
ConcContexts ==
    {<<>>, HelloCtx, AdjacentCtx, <<"a">> :> IntVal(-70),
     (<<>> :> StringVal(<<"x", "y">>)) @@ (<<"a">> :> StringVal(<<"x", "y">>))}

InitConcurrent ==
    /\ tmpl \in ConcTemplates
    /\ ppc = "loop"
    /\ index = 0
    /\ tree = <<>>
    /\ InitRender
    /\ callers = [pc  |-> [p \in Callers |-> "idle"],
                  ctx |-> [p \in Callers |-> <<>>],
                  i   |-> [p \in Callers |-> 0],
                  s   |-> [p \in Callers |-> <<>>],
                  ret |-> [p \in Callers |-> <<>>]]
    /\ singleton = NotRunning
    /\ chain = NotRunning
    /\ dbpool = NotRunning
    /\ room = NotRunning
    /\ iter = NotRunning
    /\ memo = NotRunning
    /\ switch = NotRunning
    /\ zhan = NotRunning
    /\ queue = NotRunning

\* what a step of a concurrent caller leaves alone
ConcFrame ==
    /\ UNCHANGED parseVars
    /\ UNCHANGED renderVars
    /\ UNCHANGED <<singleton, chain, dbpool, room, iter, memo, switch, zhan, queue>>

\* caller p: template.Interpreter(&Context{Data: c}); var s string
ConcCall(p, c) ==
    /\ ppc = "returned"
    /\ callers.pc[p] = "idle"
    /\ callers' = [callers EXCEPT !.pc[p] = "range", !.ctx[p] = c,
                                  !.i[p] = 0, !.s[p] = <<>>]
    /\ ConcFrame

ConcNodeSharedS(p) ==
    /\ callers.pc[p] = "range"
    /\ callers.i[p] < Len(tree)
    /\ callers' = [callers EXCEPT
          !.s = [q \in Callers |->
                   callers.s[p] \o NodeInterpreter(tree[callers.i[p] + 1],
                                                   callers.ctx[p])],
          !.i[p] = @ + 1]
    /\ ConcFrame

\* caller p: s += node.Interpreter(ctx)
ConcNode(p) ==
    /\ callers.pc[p] = "range"
    /\ callers.i[p] < Len(tree)
    /\ callers' = [callers EXCEPT
          !.s[p] = @ \o NodeInterpreter(tree[callers.i[p] + 1], callers.ctx[p]),
          !.i[p] = @ + 1]
    /\ ConcFrame

\* caller p: return s
ConcReturn(p) ==
    /\ callers.pc[p] = "range"
    /\ callers.i[p] = Len(tree)
    /\ callers' = [callers EXCEPT !.pc[p] = "done", !.ret[p] = callers.s[p]]
    /\ ConcFrame

NextConcurrent ==
    \/ ParseTail
    \/ ParseUnterminated
    \/ ParseMarker
    \/ \E p \in Callers : \E c \in ConcContexts : ConcCall(p, c)
    \/ \E p \in Callers : ConcNode(p)
    \/ \E p \in Callers : ConcReturn(p)

SpecConcurrent == InitConcurrent /\ [][NextConcurrent]_vars

\* C12: several callers may render one Template concurrently, each with its
\* own context: under every interleaving each caller gets exactly the string
\* it gets rendering alone (the texts and looked-up values of the nodes in
\* sequence), and no step of a render writes the shared node sequence.
C12_ConcurrentRender ==
    /\ [](\A p \in Callers :
            callers.pc[p] = "done" =>
                callers.ret[p] = Expand(tree, callers.ctx[p]))
    /\ [][ppc = "returned" => tree' = tree]_vars

C12_Witness ==
    /\ tmpl = AdjacentTmpl
    /\ callers.pc[1] = "done" /\ callers.pc[2] = "range" /\ callers.i[2] = 2
    /\ callers.ctx[1] = AdjacentCtx /\ callers.ctx[2] = <<"a">> :> IntVal(-70)
    /\ callers.ret[1] = <<"1", "2">>
    /\ callers.s[2] = <<"-", "7", "0">>

-----------------------------------------------------------------------------
(* Singleton (CreationalPatterns/Singleton/singleton.go): goroutines call  *)
(* GetDB concurrently.  singleton.db is the package variable db (0 is nil, *)
(* n > 0 the DB made by the n-th call of InitDB), singleton.done and       *)
(* singleton.m are the done flag and the mutex of the package variable     *)
(* once, and once.Do is modelled step by step: the unlocked test of done,  *)
(* Lock, the test of done under the lock, f, the deferred Store and Unlock. *)
(* singleton.ret[g] is <<>> until a call of goroutine g has returned, then *)
(* <<d>> for the last value d it got.                                      *)

\* number of goroutines calling GetDB
NumGoroutines == 3

Goroutines == 1..NumGoroutines

InitSingleton ==
    /\ singleton = [db    |-> 0,
                    done  |-> 0,
                    m     |-> 0,
                    inits |-> 0,
                    pc    |-> [g \in Goroutines |-> "idle"],
                    ret   |-> [g \in Goroutines |-> <<>>]]
    /\ tmpl = <<>> /\ ppc = "off" /\ index = 0 /\ tree = <<>>
    /\ InitRender
    /\ callers = NotRunning
    /\ chain = NotRunning
    /\ dbpool = NotRunning
    /\ room = NotRunning
    /\ iter = NotRunning
    /\ memo = NotRunning
    /\ switch = NotRunning
    /\ zhan = NotRunning
    /\ queue = NotRunning

\* what a step of GetDB leaves alone
SingletonFrame ==
    /\ UNCHANGED parseVars
    /\ UNCHANGED renderVars
    /\ UNCHANGED <<callers, chain, dbpool, room, iter, memo, switch, zhan, queue>>

\* goroutine g calls GetDB, which calls once.Do
GetDBCall(g) ==
    /\ singleton.pc[g] = "idle"
    /\ singleton' = [singleton EXCEPT !.pc[g] = "Do"]
    /\ SingletonFrame

OnceDoUnlocked(g) ==
    /\ singleton.pc[g] = "Do"
    /\ singleton' = [singleton EXCEPT
          !.pc[g] = IF singleton.done = 0 THEN "f" ELSE "return"]
    /\ SingletonFrame

\* once.Do: if o.done.Load() == 0 { o.doSlow(f) }
OnceDo(g) ==
    /\ singleton.pc[g] = "Do"
    /\ singleton' = [singleton EXCEPT
          !.pc[g] = IF singleton.done = 0 THEN "Lock" ELSE "return"]
    /\ SingletonFrame

\* doSlow: o.m.Lock()
OnceLock(g) ==
    /\ singleton.pc[g] = "Lock"
    /\ singleton.m = 0
    /\ singleton' = [singleton EXCEPT !.m = g, !.pc[g] = "doSlow"]
    /\ SingletonFrame

\* doSlow: if o.done.Load() == 0 { defer o.done.Store(1); f() }
OnceDoSlow(g) ==
    /\ singleton.pc[g] = "doSlow"
    /\ singleton' = [singleton EXCEPT
          !.pc[g] = IF singleton.done = 0 THEN "f" ELSE "Unlock"]
    /\ SingletonFrame

\* f: db = InitDB("")
OnceF(g) ==
    /\ singleton.pc[g] = "f"
    /\ singleton' = [singleton EXCEPT
          !.inits = @ + 1, !.db = singleton.inits + 1, !.pc[g] = "Store"]
    /\ SingletonFrame

\* doSlow: the deferred o.done.Store(1)
OnceStore(g) ==
    /\ singleton.pc[g] = "Store"
    /\ singleton' = [singleton EXCEPT !.done = 1, !.pc[g] = "Unlock"]
    /\ SingletonFrame

\* doSlow: the deferred o.m.Unlock()
OnceUnlock(g) ==
    /\ singleton.pc[g] = "Unlock"
    /\ singleton' = [singleton EXCEPT
          !.m = IF singleton.m = g THEN 0 ELSE @, !.pc[g] = "return"]
    /\ SingletonFrame

\* GetDB: return db
GetDBReturn(g) ==
    /\ singleton.pc[g] = "return"
    /\ singleton' = [singleton EXCEPT !.ret[g] = <<singleton.db>>, !.pc[g] = "idle"]
    /\ SingletonFrame

NextSingleton ==
    \/ \E g \in Goroutines : GetDBCall(g)
    \/ \E g \in Goroutines : OnceDo(g)
    \/ \E g \in Goroutines : OnceLock(g)
    \/ \E g \in Goroutines : OnceDoSlow(g)
    \/ \E g \in Goroutines : OnceF(g)
    \/ \E g \in Goroutines : OnceStore(g)
    \/ \E g \in Goroutines : OnceUnlock(g)
    \/ \E g \in Goroutines : GetDBReturn(g)

SpecSingleton == InitSingleton /\ [][NextSingleton]_vars

\* C14: under every interleaving of concurrent GetDB calls InitDB runs at
\* most once, it has run exactly once when any call is about to return, and
\* every call returns the one DB it made, never nil.
C14_SingleInstance ==
    /\ singleton.inits <= 1
    /\ \A g \in Goroutines :
          /\ singleton.pc[g] = "return" =>
                (singleton.inits = 1 /\ singleton.db = 1)
          /\ singleton.ret[g] # <<>> =>
                (singleton.ret[g] = <<1>> /\ singleton.ret[g] = <<singleton.db>>)

C14_Witness ==
    /\ \A g \in Goroutines : singleton.ret[g] = <<1>> /\ singleton.pc[g] = "idle"
    /\ singleton.inits = 1
    /\ singleton.done = 1
    /\ singleton.m = 0

-----------------------------------------------------------------------------
(* Chain of Responsibility                                                 *)
(* (BehavioralPattern/ChainOfResponsibility/ChainOfResponsibility.go).     *)
(* A handler is modelled by the calls it makes on its Context, in order:   *)
(* LogMiddleware is <<"Next">>, AuthMiddleware is <<>>.  chain.engine is   *)
(* Engine.handlers, chain.index and chain.handlers are the fields of the   *)
(* Context of the request, chain.stack holds the running handlers (the     *)
(* innermost last), each with the handler's number h and the number op of  *)
(* calls it has made.  chain.invoked lists the handlers started so far and *)
(* chain.aborted tells whether Abort has been called.                      *)

\* most handlers registered with Use
MaxHandlers == 3

\* most calls of Next and Abort one handler makes
MaxOps == 2

\* the handlers
HandlerFun == UNION {[1..n -> {"Next", "Abort"}] : n \in 0..MaxOps}

InitChain ==
    /\ chain = [pc       |-> "setup",
                engine   |-> <<>>,
                index    |-> 0,
                handlers |-> <<>>,
                stack    |-> <<>>,
                invoked  |-> <<>>,
                aborted  |-> FALSE]
    /\ tmpl = <<>> /\ ppc = "off" /\ index = 0 /\ tree = <<>>
    /\ InitRender
    /\ callers = NotRunning
    /\ singleton = NotRunning
    /\ dbpool = NotRunning
    /\ room = NotRunning
    /\ iter = NotRunning
    /\ memo = NotRunning
    /\ switch = NotRunning
    /\ zhan = NotRunning
    /\ queue = NotRunning

\* what a step of the server leaves alone
ChainFrame ==
    /\ UNCHANGED parseVars
    /\ UNCHANGED renderVars
    /\ UNCHANGED <<callers, singleton, dbpool, room, iter, memo, switch, zhan, queue>>

\* Context.Next on the Context held in record c: c.index++, then the handler
\* at c.index is called when there is one (handlers are numbered from 0)
ContextNext(c) ==
    IF c.index + 1 < Len(c.handlers)
    THEN [c EXCEPT !.index = @ + 1,
                   !.stack = Append(@, [h |-> c.index + 1, op |-> 0]),
                   !.invoked = Append(@, c.index + 1)]
    ELSE [c EXCEPT !.index = @ + 1]

ContextAbortSkipOne(c) ==
    [c EXCEPT !.index = @ + 1, !.aborted = TRUE]

\* Context.Abort on the Context held in record c
ContextAbort(c) ==
    [c EXCEPT !.index = Len(c.handlers), !.aborted = TRUE]

\* Engine.Use
Use(f) ==
    /\ chain.pc = "setup"
    /\ Len(chain.engine) < MaxHandlers
    /\ chain' = [chain EXCEPT !.engine = Append(@, f)]
    /\ ChainFrame

\* Engine.ServeHTTP: a Context with index -1 and the handlers of the
\* engine, then context.Next()
ServeHTTP ==
    /\ chain.pc = "setup"
    /\ chain' = ContextNext([chain EXCEPT !.pc = "serving",
                                          !.index = -1,
                                          !.handlers = chain.engine])
    /\ ChainFrame

\* the running handler and the call it makes next
Top == chain.stack[Len(chain.stack)]

TopCode == chain.handlers[Top.h + 1]

\* the running handler calls c.Next()
HandlerNext ==
    /\ chain.pc = "serving"
    /\ chain.stack # <<>>
    /\ Top.op < Len(TopCode)
    /\ TopCode[Top.op + 1] = "Next"
    /\ chain' = ContextNext([chain EXCEPT !.stack[Len(chain.stack)].op = @ + 1])
    /\ ChainFrame

\* the running handler calls c.Abort()
HandlerAbort ==
    /\ chain.pc = "serving"
    /\ chain.stack # <<>>
    /\ Top.op < Len(TopCode)
    /\ TopCode[Top.op + 1] = "Abort"
    /\ chain' = ContextAbort([chain EXCEPT !.stack[Len(chain.stack)].op = @ + 1])
    /\ ChainFrame

\* the running handler returns to the Next that called it
HandlerReturn ==
    /\ chain.pc = "serving"
    /\ chain.stack # <<>>
    /\ Top.op = Len(TopCode)
    /\ chain' = [chain EXCEPT !.stack = SubSeq(@, 1, Len(@) - 1)]
    /\ ChainFrame

\* context.Next() returns to ServeHTTP, which returns
ServeHTTPReturn ==
    /\ chain.pc = "serving"
    /\ chain.stack = <<>>
    /\ chain' = [chain EXCEPT !.pc = "done"]
    /\ ChainFrame

NextChain ==
    \/ \E f \in HandlerFun : Use(f)
    \/ ServeHTTP
    \/ HandlerNext
    \/ HandlerAbort
    \/ HandlerReturn
    \/ ServeHTTPReturn

SpecChain == InitChain /\ [][NextChain]_vars

\* C15: once a handler has called Abort on the Context of a request, no
\* handler is started for that request any more, however many calls of Next
\* follow.
C15_AbortStopsChain ==
    [][chain.aborted => chain'.invoked = chain.invoked]_vars

C15_Witness ==
    /\ chain.pc = "done"
    /\ chain.aborted
    /\ chain.handlers = <<<<"Abort", "Next">>, <<"Next">>, <<>>>>
    /\ chain.invoked = <<0>>
    /\ chain.index = 4

-----------------------------------------------------------------------------
(* Flyweight (StructuralPattern/Flyweight/Flyweight.go).  dbpool.pool and  *)
(* dbpool.nextID are the fields of the DBPool made by NewDBPool(num); a DB *)
(* is the record of its id.  dbpool.issued holds the DBs GetDB has         *)
(* returned, dbpool.last the DB of the last return (<<>> before the first), *)
(* dbpool.lastOp the last method called, and dbpool.alternating tells      *)
(* whether the calls so far were GetDB and Release of the DB just returned *)
(* by turns, starting with GetDB.                                          *)

\* largest num passed to NewDBPool
MaxNum == 2

\* largest id GetDB gives to a new DB
MaxID == 3

\* NewDB
NewDB(id) == [id |-> id]

\* NewDBPool(num)
NewDBPool(num) ==
    [num    |-> num,
     pool   |-> [i \in 0..(num - 1) |-> NewDB(i)],
     nextID |-> num - 1]

InitFlyweight ==
    /\ \E num \in 0..MaxNum :
          dbpool = [pool        |-> NewDBPool(num).pool,
                    nextID      |-> NewDBPool(num).nextID,
                    num         |-> num,
                    issued      |-> {},
                    last        |-> <<>>,
                    lastOp      |-> "NewDBPool",
                    alternating |-> TRUE]
    /\ tmpl = <<>> /\ ppc = "off" /\ index = 0 /\ tree = <<>>
    /\ InitRender
    /\ callers = NotRunning
    /\ singleton = NotRunning
    /\ chain = NotRunning
    /\ room = NotRunning
    /\ iter = NotRunning
    /\ memo = NotRunning
    /\ switch = NotRunning
    /\ zhan = NotRunning
    /\ queue = NotRunning

\* what a call on the pool leaves alone
FlyweightFrame ==
    /\ UNCHANGED parseVars
    /\ UNCHANGED renderVars
    /\ UNCHANGED <<callers, singleton, chain, room, iter, memo, switch, zhan, queue>>

\* the map m without key k
Delete(m, k) == [i \in (DOMAIN m) \ {k} |-> m[i]]

\* the bookkeeping of a return of db by GetDB
ReturnDB(p, db) ==
    [p EXCEPT !.issued = @ \cup {db},
              !.last = <<db>>,
              !.lastOp = "GetDB",
              !.alternating = p.alternating /\ p.lastOp # "GetDB"]

DBPoolGetDBMoreThanOne ==
    /\ IF Cardinality(DOMAIN dbpool.pool) > 1
       THEN \E id \in DOMAIN dbpool.pool :
               dbpool' = ReturnDB([dbpool EXCEPT !.pool = Delete(@, id)],
                                    dbpool.pool[id])
       ELSE /\ dbpool.nextID < MaxID
            /\ dbpool' = ReturnDB([dbpool EXCEPT !.nextID = @ + 1],
                                    NewDB(dbpool.nextID + 1))
    /\ FlyweightFrame

\* DBPool.GetDB: some DB of a pool that is not empty (the range over a map
\* starts anywhere), removed from the pool; a new DB otherwise
DBPoolGetDB ==
    /\ IF Cardinality(DOMAIN dbpool.pool) > 0
       THEN \E id \in DOMAIN dbpool.pool :
               dbpool' = ReturnDB([dbpool EXCEPT !.pool = Delete(@, id)],
                                    dbpool.pool[id])
       ELSE /\ dbpool.nextID < MaxID
            /\ dbpool' = ReturnDB([dbpool EXCEPT !.nextID = @ + 1],
                                    NewDB(dbpool.nextID + 1))
    /\ FlyweightFrame

\* DBPool.Release(db), for a DB that GetDB returned
DBPoolRelease(db) ==
    /\ db \in dbpool.issued
    /\ dbpool' = [dbpool EXCEPT
          !.pool = [i \in (DOMAIN @) \cup {db.id} |->
                      IF i = db.id THEN db ELSE @[i]],
          !.lastOp = "Release",
          !.alternating = /\ dbpool.alternating
                          /\ dbpool.lastOp = "GetDB"
                          /\ dbpool.last = <<db>>]
    /\ FlyweightFrame

NextFlyweight ==
    \/ DBPoolGetDB
    \/ \E id \in 0..MaxID : DBPoolRelease(NewDB(id))

SpecFlyweight == InitFlyweight /\ [][NextFlyweight]_vars

\* C16: GetDB makes a new DB (and moves nextID) only when the pool is
\* empty; and on the pool of NewDBPool(1), as long as the calls are GetDB
\* and Release of the DB just returned by turns, every GetDB returns the DB
\* with id 0 and nextID keeps its first value 0.
C16_PoolReuse ==
    /\ [][dbpool'.nextID # dbpool.nextID => DOMAIN dbpool.pool = {}]_vars
    /\ []((dbpool.num = 1 /\ dbpool.alternating) =>
            /\ dbpool.nextID = 0
            /\ dbpool.last # <<>> => dbpool.last[1].id = 0)

C16_Witness ==
    /\ dbpool.num = 1
    /\ dbpool.alternating
    /\ dbpool.lastOp = "GetDB"
    /\ dbpool.last = <<NewDB(0)>>
    /\ dbpool.issued = {NewDB(0)}
    /\ dbpool.pool = <<>>
    /\ dbpool.nextID = 0

-----------------------------------------------------------------------------
(* Mediator (unnamed/part_000).  A User is a struct value: the record of   *)
(* its Name and its mediator.  room.users is ChatRoom.users; the users are *)
(* told apart by their place in it, counted from 0.  room.sender, room.msg *)
(* and room.i are the sender's place, the message and the position of the  *)
(* range loop of the running (or last) ChatRoom.SendMsg, room.received the *)
(* places of the users whose RevMsg that call has invoked, in order.       *)

\* most users registered in the room
MaxUsers == 3

\* the User values: two names, and this room or another one as mediator
User == [Name : {"a", "b"}, mediator : {"room", "room2"}]

InitMediator ==
    /\ room = [users    |-> <<>>,
               pc       |-> "idle",
               sender   |-> 0,
               msg      |-> "",
               i        |-> 0,
               received |-> <<>>]
    /\ tmpl = <<>> /\ ppc = "off" /\ index = 0 /\ tree = <<>>
    /\ InitRender
    /\ callers = NotRunning
    /\ singleton = NotRunning
    /\ chain = NotRunning
    /\ dbpool = NotRunning
    /\ iter = NotRunning
    /\ memo = NotRunning
    /\ switch = NotRunning
    /\ zhan = NotRunning
    /\ queue = NotRunning

\* what a step of the chat room leaves alone
MediatorFrame ==
    /\ UNCHANGED parseVars
    /\ UNCHANGED renderVars
    /\ UNCHANGED <<callers, singleton, chain, dbpool, iter, memo, switch, zhan, queue>>

\* ChatRoom.Register
Register(user) ==
    /\ room.pc = "idle"
    /\ Len(room.users) < MaxUsers
    /\ room' = [room EXCEPT !.users = Append(@, user)]
    /\ MediatorFrame

\* the user at place p calls SendMsg(msg), which calls
\* u.mediator.SendMsg(msg, u) on this room
UserSendMsg(p, msg) ==
    /\ room.pc = "idle"
    /\ p < Len(room.users)
    /\ room.users[p + 1].mediator = "room"
    /\ room' = [room EXCEPT !.pc = "range", !.sender = p, !.msg = msg,
                            !.i = 0, !.received = <<>>]
    /\ MediatorFrame

\* ChatRoom.SendMsg, one iteration of the range loop:
\* if u == user { continue }; u.RevMsg(msg)
\* (== on the struct values compares Name and mediator)
ChatRoomSendMsgRange ==
    /\ room.pc = "range"
    /\ room.i < Len(room.users)
    /\ room' = [room EXCEPT
          !.i = @ + 1,
          !.received = IF room.users[room.i + 1] = room.users[room.sender + 1]
                       THEN @ ELSE Append(@, room.i)]
    /\ MediatorFrame

\* ChatRoom.SendMsg returns
ChatRoomSendMsgReturn ==
    /\ room.pc = "range"
    /\ room.i = Len(room.users)
    /\ room' = [room EXCEPT !.pc = "idle"]
    /\ MediatorFrame

NextMediator ==
    \/ \E user \in User : Register(user)
    \/ \E p \in 0..(MaxUsers - 1) : \E msg \in {"hi", "yo"} : UserSendMsg(p, msg)
    \/ ChatRoomSendMsgRange
    \/ ChatRoomSendMsgReturn

SpecMediator == InitMediator /\ [][NextMediator]_vars

RECURSIVE PlacesFrom(_, _, _)
\* the places p, p + 1, .. n - 1 without place x, in order
PlacesFrom(p, n, x) ==
    IF p >= n THEN <<>>
    ELSE (IF p = x THEN <<>> ELSE <<p>>) \o PlacesFrom(p + 1, n, x)

\* C17: when the loop of a SendMsg of a registered user is over, RevMsg has
\* been invoked exactly once for every registered user other than the
\* sender, in registration order, and not for the sender, also when two
\* registered users have the same Name and mediator.
C17_AllButSender ==
    (room.pc = "range" /\ room.i = Len(room.users)) =>
        room.received = PlacesFrom(0, Len(room.users), room.sender)

-----------------------------------------------------------------------------
(* Iterator (BehavioralPattern/Iterator/Iterator.go).  iter.Books and      *)
(* iter.position are the fields of the BookIterator; a *Book is modelled   *)
(* by the name of the Book it points to (never nil: Next uses nil for "no  *)
(* more books"), and one Book may be in the collection more than once.     *)
(* iter.pc is the position of IteratorFunc, iter.returned the books Next   *)
(* has returned so far, in order.                                          *)

\* most books in the collection
MaxBooks == 4

Books == {"Go", "XX"}

\* NewBookIterator(book)
NewBookIterator(book) == [Books |-> book, position |-> 0]

InitIterator ==
    /\ \E n \in 0..MaxBooks : \E book \in [1..n -> Books] :
          iter = [Books    |-> NewBookIterator(book).Books,
                  position |-> NewBookIterator(book).position,
                  pc       |-> "for",
                  returned |-> <<>>]
    /\ tmpl = <<>> /\ ppc = "off" /\ index = 0 /\ tree = <<>>
    /\ InitRender
    /\ callers = NotRunning
    /\ singleton = NotRunning
    /\ chain = NotRunning
    /\ dbpool = NotRunning
    /\ room = NotRunning
    /\ memo = NotRunning
    /\ switch = NotRunning
    /\ zhan = NotRunning
    /\ queue = NotRunning

\* what a step of IteratorFunc leaves alone
IteratorFrame ==
    /\ UNCHANGED parseVars
    /\ UNCHANGED renderVars
    /\ UNCHANGED <<callers, singleton, chain, dbpool, room, memo, switch, zhan, queue>>

HasNextOffByOne(b) == ~ (b.position > Len(b.Books))

\* BookIterator.HasNext
HasNext(b) == ~ (b.position >= Len(b.Books))

\* IteratorFunc: for iterator.HasNext(), the loop goes on
IteratorFuncEnter ==
    /\ iter.pc = "for"
    /\ HasNext(iter)
    /\ iter' = [iter EXCEPT !.pc = "body"]
    /\ IteratorFrame

\* IteratorFunc: for iterator.HasNext(), the loop and the function end
IteratorFuncExit ==
    /\ iter.pc = "for"
    /\ ~ HasNext(iter)
    /\ iter' = [iter EXCEPT !.pc = "done"]
    /\ IteratorFrame

\* IteratorFunc: book := iterator.Next(); fmt.Println(book.Title)
\* Next returns nil without HasNext, and book.Title of nil panics;
\* b.Books[b.position] past the end panics
IteratorFuncNext ==
    /\ iter.pc = "body"
    /\ IF ~ HasNext(iter) \/ iter.position >= Len(iter.Books)
       THEN iter' = [iter EXCEPT !.pc = "panic"]
       ELSE iter' = [iter EXCEPT
               !.returned = Append(@, iter.Books[iter.position + 1]),
               !.position = @ + 1,
               !.pc = "for"]
    /\ IteratorFrame

NextIterator ==
    \/ IteratorFuncEnter
    \/ IteratorFuncExit
    \/ IteratorFuncNext

\* IteratorFunc is sequential code: it goes on as long as it has a step
SpecIterator ==
    InitIterator /\ [][NextIterator]_vars /\ WF_vars(NextIterator)

\* C18: IteratorFunc over a BookIterator of any finite collection ends, and
\* when it does Next has returned every book of the collection exactly once,
\* in index order 0..len-1; until then it has returned the books before
\* b.position, in that order.
C18_IteratesAll ==
    /\ [](iter.returned = SubSeq(iter.Books, 1, iter.position))
    /\ <>(iter.pc = "done" /\ iter.returned = iter.Books)

C18_Witness ==
    /\ iter.pc = "done"
    /\ iter.Books = <<"Go", "XX", "Go">>
    /\ iter.returned = <<"Go", "XX", "Go">>
    /\ iter.position = 3

-----------------------------------------------------------------------------
(* Memento (BehavioralPattern/Memento/Memento.go).  memo.state is the      *)
(* state of the originator TextNode.  memo.heap holds the TextMementos     *)
(* made so far, in the order TextNode.Save made them; a Memento value is a *)
(* pointer to one of them, modelled by its place in memo.heap (from 1).    *)
(* memo.states is Manage.states.  memo.origin[n] is the state the          *)
(* originator had when Save made memento n, memo.back what the last        *)
(* manage.Back(i).GetState() was asked and what it returned.               *)

\* most mementos TextNode.Save makes
MaxMementos == 3

\* most mementos Manage.Save stores
MaxSaves == 3

\* the states given to SetState
TextStates == {"1", "2"}

InitMemento ==
    /\ memo = [pc     |-> "run",
               state  |-> "",
               heap   |-> <<>>,
               states |-> <<>>,
               origin |-> <<>>,
               back   |-> <<>>]
    /\ tmpl = <<>> /\ ppc = "off" /\ index = 0 /\ tree = <<>>
    /\ InitRender
    /\ callers = NotRunning
    /\ singleton = NotRunning
    /\ chain = NotRunning
    /\ dbpool = NotRunning
    /\ room = NotRunning
    /\ iter = NotRunning
    /\ switch = NotRunning
    /\ zhan = NotRunning
    /\ queue = NotRunning

\* what a call on the originator or the caretaker leaves alone
MementoFrame ==
    /\ UNCHANGED parseVars
    /\ UNCHANGED renderVars
    /\ UNCHANGED <<callers, singleton, chain, dbpool, room, iter, switch, zhan, queue>>

TextNodeSetStateShared(state) ==
    /\ memo.pc = "run"
    /\ memo' = [memo EXCEPT !.state = state,
                            !.heap = [n \in DOMAIN @ |-> [state |-> state]]]
    /\ MementoFrame

\* TextNode.SetState
TextNodeSetState(state) ==
    /\ memo.pc = "run"
    /\ memo' = [memo EXCEPT !.state = state]
    /\ MementoFrame

\* TextNode.Save: a new TextMemento with a copy of the state
TextNodeSave ==
    /\ memo.pc = "run"
    /\ Len(memo.heap) < MaxMementos
    /\ memo' = [memo EXCEPT !.heap = Append(@, [state |-> memo.state]),
                            !.origin = Append(@, memo.state)]
    /\ MementoFrame

\* Manage.Save(t), for a Memento t that TextNode.Save returned
ManageSave(t) ==
    /\ memo.pc = "run"
    /\ t \in DOMAIN memo.heap
    /\ Len(memo.states) < MaxSaves
    /\ memo' = [memo EXCEPT !.states = Append(@, t)]
    /\ MementoFrame

\* TextMemento.GetState of the memento t points to
TextMementoGetState(t) == memo.heap[t].state

\* manage.Back(index).GetState(); m.states[index] out of range panics
ManageBack(i) ==
    /\ memo.pc = "run"
    /\ IF i < 0 \/ i >= Len(memo.states)
       THEN memo' = [memo EXCEPT !.pc = "panic"]
       ELSE memo' = [memo EXCEPT
               !.back = <<[index |-> i,
                           state |-> TextMementoGetState(memo.states[i + 1])]>>]
    /\ MementoFrame

NextMemento ==
    \/ \E state \in TextStates : TextNodeSetState(state)
    \/ TextNodeSave
    \/ \E t \in 1..MaxMementos : ManageSave(t)
    \/ \E i \in -1..MaxSaves : ManageBack(i)

SpecMemento == InitMemento /\ [][NextMemento]_vars

\* C19: whatever SetState, TextNode.Save and Manage.Save calls were made,
\* the memento at place i of the caretaker's list (the i-th stored, from 0)
\* holds the state the originator had when TextNode.Save took it, whatever
\* SetState did later; Back(i).GetState() returns that state; and Back
\* changes neither the originator, nor the list, nor any memento.
C19_MementosKept ==
    /\ [](\A i \in 1..Len(memo.states) :
            TextMementoGetState(memo.states[i]) = memo.origin[memo.states[i]])
    /\ [](memo.back # <<>> =>
            memo.back[1].state = memo.origin[memo.states[memo.back[1].index + 1]])
    /\ [][(\E i \in 0..(MaxSaves - 1) : i < Len(memo.states) /\ ManageBack(i)) =>
            /\ memo'.state = memo.state
            /\ memo'.states = memo.states
            /\ memo'.heap = memo.heap]_vars

C19_Witness ==
    /\ memo.pc = "run"
    /\ memo.state = "2"
    /\ memo.heap = <<[state |-> "1"], [state |-> "2"]>>
    /\ memo.states = <<1, 2>>
    /\ memo.back = <<[index |-> 0, state |-> "1"]>>

-----------------------------------------------------------------------------
(* State (BehavioralPattern/State/State.go).  switch.state is the field    *)
(* state of the Context: the dynamic type of the State it holds, OffState  *)
(* or OnState, and whether it holds it by pointer (main starts from the    *)
(* value OffState{}, Switch stores &OnState{} and &OffState{}; the method  *)
(* Switch has a value receiver, so both are called alike).  switch.n is    *)
(* the number of calls of Context.Switch made so far.                      *)

\* most calls of Context.Switch
MaxSwitches == 120

InitState ==
    /\ switch = [state |-> [type |-> "OffState", ptr |-> FALSE], n |-> 0]
    /\ tmpl = <<>> /\ ppc = "off" /\ index = 0 /\ tree = <<>>
    /\ InitRender
    /\ callers = NotRunning
    /\ singleton = NotRunning
    /\ chain = NotRunning
    /\ dbpool = NotRunning
    /\ room = NotRunning
    /\ iter = NotRunning
    /\ memo = NotRunning
    /\ zhan = NotRunning
    /\ queue = NotRunning

\* Context.SetState on the Context held in record c
SetState(c, state) == [c EXCEPT !.state = state]

OnStateSwitchStaysOn(c) == SetState(c, [type |-> "OnState", ptr |-> TRUE])

\* OnState.Switch: context.SetState(&OffState{})
OnStateSwitch(c) == SetState(c, [type |-> "OffState", ptr |-> TRUE])

\* OffState.Switch: context.SetState(&OnState{})
OffStateSwitch(c) == SetState(c, [type |-> "OnState", ptr |-> TRUE])

\* Context.Switch: c.state.Switch(c)
ContextSwitch ==
    /\ switch.n < MaxSwitches
    /\ switch' = [(IF switch.state.type = "OnState"
                   THEN OnStateSwitch(switch)
                   ELSE OffStateSwitch(switch)) EXCEPT !.n = @ + 1]
    /\ UNCHANGED parseVars
    /\ UNCHANGED renderVars
    /\ UNCHANGED <<callers, singleton, chain, dbpool, room, iter, memo, zhan, queue>>

NextState == ContextSwitch

SpecState == InitState /\ [][NextState]_vars

\* C20: the Context always holds an on-state or an off-state; every call of
\* Context.Switch moves it from off to on or from on to off; so, starting
\* from off, it is on after n calls exactly when n is odd.
C20_Toggle ==
    /\ [](switch.state.type \in {"OnState", "OffState"})
    /\ [](switch.state.type = "OnState" <=> switch.n % 2 = 1)
    /\ [][switch'.n = switch.n + 1 =>
            \/ switch.state.type = "OffState" /\ switch'.state.type = "OnState"
            \/ switch.state.type = "OnState" /\ switch'.state.type = "OffState"]_vars

C20_Witness ==
    /\ switch.n = 3
    /\ switch.state = [type |-> "OnState", ptr |-> TRUE]

-----------------------------------------------------------------------------
(* Observer (BehavioralPattern/Observer/Observer.go).  zhan holds the      *)
(* fields observerList and wd of the WeatherZhan and the position of the   *)
(* one goroutine of main: pc is "idle" between calls and "range" inside    *)
(* the loop of Notify, whose range expression was evaluated to zhan.ranged *)
(* and which stands before element zhan.i of it.  An observer is a User    *)
(* value, written by its Name; RevMsg only prints, so it is recorded and   *)
(* changes nothing.  zhan.sent is history: one record for every call of    *)
(* SendMsg, with the argument wd, the observerList at the call and the     *)
(* RevMsg invocations <<Name, value passed>> made by the call so far.      *)

\* most observers registered
MaxObservers == 3
\* most calls of SendMsg
MaxSends == 2
\* the temperatures sent are 0 .. MaxWd
MaxWd == 1

UserNames == {"u1", "u2"}

\* zhan := WeatherZhan{}
InitObserver ==
    /\ zhan = [observerList |-> <<>>,
               wd           |-> 0,
               pc           |-> "idle",
               ranged       |-> <<>>,
               i            |-> 0,
               sent         |-> <<>>]
    /\ tmpl = <<>> /\ ppc = "off" /\ index = 0 /\ tree = <<>>
    /\ InitRender
    /\ callers = NotRunning
    /\ singleton = NotRunning
    /\ chain = NotRunning
    /\ dbpool = NotRunning
    /\ room = NotRunning
    /\ iter = NotRunning
    /\ memo = NotRunning
    /\ switch = NotRunning
    /\ queue = NotRunning

\* what a step of the weather station leaves alone
ObserverFrame ==
    /\ UNCHANGED parseVars
    /\ UNCHANGED renderVars
    /\ UNCHANGED <<callers, singleton, chain, dbpool, room, iter, memo, switch, queue>>

\* WeatherZhan.RegisterObserver
RegisterObserver(observer) ==
    /\ zhan.pc = "idle"
    /\ Len(zhan.observerList) < MaxObservers
    /\ zhan' = [zhan EXCEPT !.observerList = Append(@, observer)]
    /\ ObserverFrame

WeatherZhanSendMsgKeepWd(wd) ==
    /\ zhan.pc = "idle"
    /\ Len(zhan.sent) < MaxSends
    /\ zhan' = [zhan EXCEPT
          !.pc = "range", !.ranged = zhan.observerList, !.i = 0,
          !.sent = Append(@, [wd |-> wd, registered |-> zhan.observerList,
                              RevMsg |-> <<>>])]
    /\ ObserverFrame

\* WeatherZhan.SendMsg up to the loop of Notify: w.wd = wd; w.Notify(),
\* which evaluates the range expression w.observerList
WeatherZhanSendMsg(wd) ==
    /\ zhan.pc = "idle"
    /\ Len(zhan.sent) < MaxSends
    /\ zhan' = [zhan EXCEPT
          !.wd = wd,
          !.pc = "range", !.ranged = zhan.observerList, !.i = 0,
          !.sent = Append(@, [wd |-> wd, registered |-> zhan.observerList,
                              RevMsg |-> <<>>])]
    /\ ObserverFrame

\* WeatherZhan.Notify, one iteration of the loop: observer.RevMsg(w.wd)
NotifyRange ==
    /\ zhan.pc = "range"
    /\ zhan.i < Len(zhan.ranged)
    /\ zhan' = [zhan EXCEPT
          !.i = @ + 1,
          !.sent[Len(zhan.sent)].RevMsg =
              Append(@, <<zhan.ranged[zhan.i + 1], zhan.wd>>)]
    /\ ObserverFrame

\* the loop is over: Notify and SendMsg return
NotifyReturn ==
    /\ zhan.pc = "range"
    /\ zhan.i = Len(zhan.ranged)
    /\ zhan' = [zhan EXCEPT !.pc = "idle"]
    /\ ObserverFrame

NextObserver ==
    \/ \E observer \in UserNames : RegisterObserver(observer)
    \/ \E wd \in 0..MaxWd : WeatherZhanSendMsg(wd)
    \/ NotifyRange
    \/ NotifyReturn

SpecObserver == InitObserver /\ [][NextObserver]_vars

\* the k-th call of SendMsg is over
SendOver(k) == k < Len(zhan.sent) \/ zhan.pc = "idle"

\* C21: a call SendMsg(wd) has stored wd while it notifies; what it has
\* invoked so far is RevMsg on the observers registered at the call, once
\* per registration, in registration order, each with wd; when it is over
\* it has done so for all of them, and later registrations add nothing to it.
C21_NotifyRegistered ==
    /\ zhan.pc = "range" => zhan.wd = zhan.sent[Len(zhan.sent)].wd
    /\ \A k \in 1..Len(zhan.sent) :
          LET e == zhan.sent[k] IN
          /\ Len(e.RevMsg) <= Len(e.registered)
          /\ \A p \in 1..Len(e.RevMsg) : e.RevMsg[p] = <<e.registered[p], e.wd>>
          /\ SendOver(k) => Len(e.RevMsg) = Len(e.registered)

\* a SendMsg(0) to one observer, then a second registration, then a
\* SendMsg(1) that has notified both
C21_Witness ==
    /\ zhan.pc = "idle"
    /\ Len(zhan.sent) = 2
    /\ zhan.sent[1].wd = 0 /\ Len(zhan.sent[1].RevMsg) = 1
    /\ zhan.sent[2].wd = 1 /\ Len(zhan.sent[2].RevMsg) = 2
    /\ zhan.sent[2].RevMsg[2] = <<"u2", 1>>

-----------------------------------------------------------------------------
(* Command (unnamed/part_000, package of TaskQueue).  queue holds the      *)
(* field Queue of the TaskQueue and the position of the one goroutine of   *)
(* main: pc is "idle" between calls and "range" inside the loop of         *)
(* TaskQueue.Command, whose range expression was evaluated to queue.ranged *)
(* and which stands before element queue.i of it.  A command is written    *)
(* by the name of its type; each Execute only prints, so it is recorded    *)
(* and changes nothing.  queue.runs is history: one record for every call  *)
(* of TaskQueue.Command, with the Queue at the call, the commands whose    *)
(* Execute the call has invoked so far, and, once it has returned, the     *)
(* Queue it left.                                                          *)

\* most commands added
MaxCommands == 3
\* most calls of TaskQueue.Command
MaxRuns == 2

Commands == {"PrintCommand", "SendEmail", "SendTel"}

\* queue := NewTaskQueue()
NewTaskQueue == [Queue |-> <<>>, pc |-> "idle", ranged |-> <<>>, i |-> 0, runs |-> <<>>]

InitCommand ==
    /\ queue = NewTaskQueue
    /\ tmpl = <<>> /\ ppc = "off" /\ index = 0 /\ tree = <<>>
    /\ InitRender
    /\ callers = NotRunning
    /\ singleton = NotRunning
    /\ chain = NotRunning
    /\ dbpool = NotRunning
    /\ room = NotRunning
    /\ iter = NotRunning
    /\ memo = NotRunning
    /\ switch = NotRunning
    /\ zhan = NotRunning

\* what a step of the task queue leaves alone
CommandFrame ==
    /\ UNCHANGED parseVars
    /\ UNCHANGED renderVars
    /\ UNCHANGED <<callers, singleton, chain, dbpool, room, iter, memo, switch, zhan>>

\* TaskQueue.AddCommand
AddCommand(command) ==
    /\ queue.pc = "idle"
    /\ Len(queue.Queue) < MaxCommands
    /\ queue' = [queue EXCEPT !.Queue = Append(@, command)]
    /\ CommandFrame

\* TaskQueue.Command is called and evaluates the range expression t.Queue
TaskQueueCommand ==
    /\ queue.pc = "idle"
    /\ Len(queue.runs) < MaxRuns
    /\ queue' = [queue EXCEPT
          !.pc = "range", !.ranged = queue.Queue, !.i = 0,
          !.runs = Append(@, [added |-> queue.Queue, Execute |-> <<>>,
                              over |-> FALSE, left |-> <<>>])]
    /\ CommandFrame

CommandRangeDequeue ==
    /\ queue.pc = "range"
    /\ queue.i < Len(queue.ranged)
    /\ queue' = [queue EXCEPT
          !.i = @ + 1,
          !.Queue = Tail(@),
          !.runs[Len(queue.runs)].Execute = Append(@, queue.ranged[queue.i + 1])]
    /\ CommandFrame

\* TaskQueue.Command, one iteration of the loop: command.Execute()
CommandRange ==
    /\ queue.pc = "range"
    /\ queue.i < Len(queue.ranged)
    /\ queue' = [queue EXCEPT
          !.i = @ + 1,
          !.runs[Len(queue.runs)].Execute = Append(@, queue.ranged[queue.i + 1])]
    /\ CommandFrame

\* the loop is over: TaskQueue.Command returns
CommandReturn ==
    /\ queue.pc = "range"
    /\ queue.i = Len(queue.ranged)
    /\ queue' = [queue EXCEPT
          !.pc = "idle",
          !.runs[Len(queue.runs)].over = TRUE,
          !.runs[Len(queue.runs)].left = queue.Queue]
    /\ CommandFrame

NextCommand ==
    \/ \E command \in Commands : AddCommand(command)
    \/ TaskQueueCommand
    \/ CommandRange
    \/ CommandReturn

SpecCommand == InitCommand /\ [][NextCommand]_vars

\* C22: what a call of TaskQueue.Command has invoked so far is Execute on
\* the commands added before the call, once each, in the order they were
\* added; when it returns it has invoked all of them and the Queue is the
\* one it found.
C22_ExecutesAll ==
    \A k \in 1..Len(queue.runs) :
        LET e == queue.runs[k] IN
        /\ Len(e.Execute) <= Len(e.added)
        /\ e.Execute = SubSeq(e.added, 1, Len(e.Execute))
        /\ e.over => e.Execute = e.added /\ e.left = e.added

\* a call over the three commands of main has returned
C22_Witness ==
    /\ queue.pc = "idle"
    /\ Len(queue.runs) >= 1
    /\ queue.runs[1].over
    /\ queue.runs[1].Execute = <<"PrintCommand", "SendEmail", "SendTel">>
    /\ queue.Queue = <<"PrintCommand", "SendEmail", "SendTel">>

-----------------------------------------------------------------------------
(* Shape of the tree and termination of the scan of ParseTemplate.         *)

RECURSIVE CompletedMarkers(_, _)
\* the number of markers of str from offset pos on: a marker is the first
\* "{{" at or after pos with the first "}}" after it, and the count goes on
\* just after that "}}"
CompletedMarkers(str, pos) ==
    LET opens == {p \in Opens(str) : p >= pos}
    IN  IF opens = {} THEN 0
        ELSE LET closes == {q \in Closes(str) : q > Min(opens)}
             IN  IF closes = {} THEN 0
                 ELSE 1 + CompletedMarkers(str, Min(closes) + 2)

\* C23: the tree ParseTemplate returns is not empty, has a TextNode at every
\* odd place and a VarNode at every even place, ends with a TextNode, and
\* has 2k+1 nodes, k the number of completed markers of the input.
C23_Alternates ==
    Parsed =>
        /\ tree # <<>>
        /\ tree[1].type = "TextNode"
        /\ \A i \in 1..Len(tree) :
              tree[i].type = (IF i % 2 = 1 THEN "TextNode" ELSE "VarNode")
        /\ tree[Len(tree)].type = "TextNode"
        /\ Len(tree) % 2 = 1
        /\ Len(tree) = 2 * CompletedMarkers(tmpl, 0) + 1

\* two markers with nothing before, between or after them: five nodes,
\* three of them empty TextNodes
C23_Witness ==
    /\ Parsed
    /\ tmpl = AdjacentTmpl
    /\ Len(tree) = 5
    /\ tree[1] = TextNode(<<>>) /\ tree[3] = TextNode(<<>>) /\ tree[5] = TextNode(<<>>)

\* ParseTemplate alone: the scan loop, which goes on until it breaks
NextParse ==
    \/ ParseTail
    \/ ParseUnterminated
    \/ ParseMarker

SpecParse == Init /\ [][NextParse]_vars /\ WF_vars(NextParse)

\* C24: the scan of ParseTemplate ends for every input string; an iteration
\* that does not end it moves the cursor forward by at least four, the
\* length of "{{" and "}}"; the cursor is never past the end of the string.
C24_ScanTerminates ==
    /\ <>Parsed
    /\ [](index <= Len(tmpl))
    /\ [][(ppc = "loop" /\ ppc' = "loop") => index' >= index + 4]_vars

\* the scan has ended after two iterations that went on, the second of
\* which left the cursor at the end of the string
C24_Witness ==
    /\ Parsed
    /\ tmpl = AdjacentTmpl
    /\ index = Len(tmpl)
    /\ Len(tree) = 5

====
